---- MODULE Spec2Model ----
(***************************************************************************)
(* Turn/state engine of the AI writing assistant (src/app.py).             *)
(*                                                                         *)
(* The SQLite database writing_sessions.db is shared by every browser      *)
(* session; each Streamlit session has its own st.session_state and runs   *)
(* the script top to bottom on every interaction.  A script run that calls *)
(* the rating or the continuation collaborator waits for the network, and  *)
(* the other sessions run meanwhile: a run is therefore split at its       *)
(* collaborator calls and at its database commits (every helper opens its  *)
(* own connection and commits on its own).                                 *)
(*                                                                         *)
(* Encodings.  Python None / SQL NULL of an integer column is 0 (row ids   *)
(* start at 1, human ratings are 1..5).  A TEXT value is a token; the text *)
(* of a rating reply is a sequence of lines, each line the sequence of its *)
(* ':'-separated fields.  created_at grows with the row id, so a table is  *)
(* kept as the sequence of its rows in insertion order.                    *)
(***************************************************************************)
EXTENDS Integers, Sequences, FiniteSets, TLC

\* ---------------------------------------------------------------- bounds
\* Stories ever created and chapter rows, per specification.
MaxStories == 1
MaxChapters == 2
MaxSoloStories == 1
MaxSoloChapters == 3
MaxRaceStories == 1
MaxRaceChapters == 3
MaxStyleButtons == 1
\* Entries of a rating history given to the classification alone.
MaxClassified == 3
\* Stories, chapter rows and polish sessions where chapters and polished texts
\* are rated, and polish sessions where only polishing takes place.
MaxRatedStories == 1
MaxRatedChapters == 2
MaxRatedPolish == 2
MaxPolishSessions == 6
\* A story long enough for its context to pass any budget.
MaxLongStories == 1
MaxLongChapters == 5
MaxReplyStories == 1
MaxReplyChapters == 2
MaxReplyPolish == 1
MaxClientStories == 1
MaxClientChapters == 1
MaxClientPolish == 1
MaxRetryStories == 1
MaxRetryChapters == 2
MaxDeleteStories == 2
MaxDeleteChapters == 2
MaxDeletePolish == 1

\* ------------------------------------------------------ program constants
MinWords == 200
DefaultRating == 3

Sessions == {"s1", "s2"}

\* ------------------------------------------------------------------ texts
\* What a user may type into a text area, with len(text.split()).
WordCount(t) ==
  CASE t = "" -> 0
    [] t = "w199" -> 199
    [] t = "w200" -> 200
    [] t = "w210" -> 210
    [] OTHER -> 0

\* len(text) of the same texts: words of five letters, a space between two.
CharCount(t) ==
  CASE t = "" -> 0
    [] t = "w199" -> 1193
    [] t = "w200" -> 1199
    [] t = "w210" -> 1259
    [] t = "X" -> 1
    [] t = "P" -> 1
    [] OTHER -> 24

\* The texts a session's user types: one too short, one long enough (each
\* user has an own long text, so that the author of a stored text is known).
TypedTexts(s) == {"w199", IF s = "s1" THEN "w200" ELSE "w210"}
TypedTitles == {"", "Test"}

\* The selectbox [None, 1, 2, 3, 4, 5] of both rating forms: a rating is
\* submitted only when it is not None.
RatingOptions == 1..5
\* The ratings the users of the model pick: one below 3 and one above 4.
PickedRatings == {2, 5}

\* The optional feedback typed with the rating of a polish session: left empty
\* (the empty string is as false as None, and is kept as NoText), or a text
\* of its own for every session.
FeedbackOn(session_id) ==
  CASE session_id = 1 -> << <<"feedback 1">> >>
    [] session_id = 2 -> << <<"feedback 2">> >>
    [] session_id = 3 -> << <<"feedback 3">> >>
    [] session_id = 4 -> << <<"feedback 4">> >>
    [] session_id = 5 -> << <<"feedback 5">> >>
    [] session_id = 6 -> << <<"feedback 6">> >>
    [] OTHER -> << <<"feedback 7+">> >>

\* The four style buttons, in the order of the columns; the session starts
\* with "creative" selected.
StyleButtons == <<"funny", "spooky", "surprise", "creative">>
StyleChoices == {StyleButtons[i] : i \in 1..MaxStyleButtons}

\* ------------------------------------------------- rating collaborator
\* Replies of the rating collaborator (response.choices[0].message.content).
Reply3 == << <<"Rating", " 3">>, <<"Strengths", " pace">> >>
Reply4 == << <<"Rating", " 4">>, <<"Strengths", " voice">> >>
ReplyNoNumber == << <<"Rating", " four">>, <<"Strengths", " voice">> >>
ReplyNoMarker == << <<"A solid draft">> >>
RateReplies == {Reply3, Reply4}
\* Replies whose number lies outside 1..5, and every reply with a marker or none
Reply0 == << <<"Rating", " 0">>, <<"Strengths", " none">> >>
Reply7 == << <<"Rating", " 7">>, <<"Strengths", " all">> >>
AnyReplies == {Reply0, Reply3, Reply7, ReplyNoNumber, ReplyNoMarker}
RateFailure == << <<"!exception">> >>
UnableToRate == << <<"Unable to rate at this time">> >>
NoText == << >>

\* int(field.strip()): the fields that parse, and their values.
IntFields == {" 0", " 1", " 2", " 3", " 4", " 5", " 7"}
ParseInt(f) ==
  CASE f = " 0" -> 0 [] f = " 1" -> 1 [] f = " 2" -> 2 [] f = " 3" -> 3
    [] f = " 4" -> 4 [] f = " 5" -> 5 [] f = " 7" -> 7 [] OTHER -> 0

\* "Rating:" in result
HasRatingMarker(result) ==
  \E i \in 1..Len(result) :
    \E j \in 1..Len(result[i]) : result[i][j] = "Rating" /\ j < Len(result[i])

\* Faulty variant of ExtractRating: the number in the reply is ignored.
ExtractRating_always_default(result) == DefaultRating

\* The rating extracted from a reply: 3 unless the first line's second field
\* parses as an integer.
ExtractRating(result) ==
  IF HasRatingMarker(result) /\ Len(result[1]) >= 2 /\ result[1][2] \in IntFields
  THEN ParseInt(result[1][2])
  ELSE DefaultRating

\* Faulty variant of rate_user_writing: a failed call yields no rating instead of 3.
rate_user_writing_without_default(outcome) ==
  IF outcome = RateFailure
  THEN [rating |-> 0, text |-> UnableToRate]
  ELSE [rating |-> ExtractRating(outcome), text |-> outcome]

\* rate_user_writing: (rating, text) for a reply, (3, sentinel) when the call
\* raises.
rate_user_writing(outcome) ==
  IF outcome = RateFailure
  THEN [rating |-> DefaultRating, text |-> UnableToRate]
  ELSE [rating |-> ExtractRating(outcome), text |-> outcome]

\* ------------------------------------------- continuation collaborator
GenReplies == {"X"}
GenFailure == "!exception"
GenErrorText == "Error generating chapter"

\* generate_next_chapter's return value: the reply, or the error string the
\* except branch builds.
generate_result(outcome) ==
  IF outcome = GenFailure THEN GenErrorText ELSE outcome

\* ------------------------------------------------------ rating history
\* A rating history is what get_user_rating_history returns: a sequence of
\* (user_rating, feedback) pairs, most recent first.
\* [r for r in previous_ratings if r[0]]
RatedEntries(previous_ratings) ==
  SelectSeq(previous_ratings, LAMBDA r : r[1] # 0)

\* sum([r[0] for r in ...])
RECURSIVE SumRatings(_)
SumRatings(entries) ==
  IF entries = << >> THEN 0
  ELSE entries[1][1] + SumRatings(Tail(entries))

\* The division of avg_rating raises ZeroDivisionError: the history is not
\* empty and no entry of it has a rating.
RaisesZeroDivision(previous_ratings) ==
  previous_ratings # << >> /\ RatedEntries(previous_ratings) = << >>

\* The sentences rating_context is set to.
NoDirective == ""
EngagingDirective == "focus on being more engaging and creative"
MaintainDirective == "maintain this quality level"

\* Faulty variant of generation_rating_context: an average of exactly 3 counts
\* as low, and one of exactly 4 does not count as high.
generation_rating_context_shifted(previous_ratings) ==
  IF previous_ratings = << >> \/ RaisesZeroDivision(previous_ratings)
  THEN NoDirective
  ELSE LET rated == RatedEntries(previous_ratings)
       IN  IF SumRatings(rated) <= 3 * Len(rated) THEN EngagingDirective
           ELSE IF SumRatings(rated) > 4 * Len(rated) THEN MaintainDirective
           ELSE NoDirective

\* rating_context of generate_next_chapter.  avg_rating is the float
\* sum / len; for these small integers avg_rating < 3 is sum < 3 * len and
\* avg_rating >= 4 is sum >= 4 * len.
generation_rating_context(previous_ratings) ==
  IF previous_ratings = << >> \/ RaisesZeroDivision(previous_ratings)
  THEN NoDirective
  ELSE LET rated == RatedEntries(previous_ratings)
       IN  IF SumRatings(rated) < 3 * Len(rated) THEN EngagingDirective
           ELSE IF SumRatings(rated) >= 4 * Len(rated) THEN MaintainDirective
           ELSE NoDirective

\* generate_next_chapter: the error string when building rating_context
\* raised, else what the collaborator call leads to
generate_next_chapter(previous_ratings, outcome) ==
  IF RaisesZeroDivision(previous_ratings)
  THEN GenErrorText
  ELSE generate_result(outcome)

\* ------------------------------------------------ polishing collaborator
PolishReplies == {"P"}
PolishFailure == "!exception"
PolishErrorText == "Error polishing text"
ConservativeDirective == "Be more conservative and focus on clear improvements"

\* feedbacks = [r[1] for r in previous_ratings if r[1]]
Feedbacks(previous_ratings) ==
  LET with_text == SelectSeq(previous_ratings, LAMBDA r : r[2] # NoText)
  IN  [i \in 1..Len(with_text) |-> with_text[i][2]]

\* feedbacks[-2:]
LastTwo(feedbacks) ==
  IF Len(feedbacks) <= 2 THEN feedbacks
  ELSE SubSeq(feedbacks, Len(feedbacks) - 1, Len(feedbacks))

\* rating_context of polish_writing: the directive, and the feedback texts
\* joined after "Previous feedback: "
polish_rating_context(previous_ratings) ==
  IF previous_ratings = << >> \/ RaisesZeroDivision(previous_ratings)
  THEN [directive |-> NoDirective, feedbacks |-> << >>]
  ELSE LET rated == RatedEntries(previous_ratings)
       IN  [directive |-> IF SumRatings(rated) < 3 * Len(rated)
                          THEN ConservativeDirective ELSE NoDirective,
            feedbacks |-> LastTwo(Feedbacks(previous_ratings))]

\* polish_writing: the error string when building rating_context raised or
\* the collaborator call failed, else the reply
polish_writing(previous_ratings, outcome) ==
  IF RaisesZeroDivision(previous_ratings) \/ outcome = PolishFailure
  THEN PolishErrorText
  ELSE outcome


\* ------------------------------------------------------------------ state
VARIABLES
  stories,          \* table stories, rows in insertion order
  chapters,         \* table chapters, rows in insertion order
  polish_sessions,  \* table polish_sessions, rows in insertion order
  sqlite_sequence,  \* AUTOINCREMENT: the largest id ever given, per table
  clock,            \* datetime.datetime.now(), a logical time
  session_state,    \* st.session_state of each session
  pc,               \* where each session's script run is waiting
  run,              \* the local variables of each session's script run
  substituted,      \* history: ids of chapter rows whose ai_rating is the
                    \* default of rate_user_writing's outer except branch
  refused,          \* history: forms on which a short text met a disabled button
  api_key           \* OPENAI_API_KEY of st.secrets or os.environ, "" for none

vars == <<stories, chapters, polish_sessions, sqlite_sequence, clock,
          session_state, pc, run, substituted, refused, api_key>>

db == <<stories, chapters, polish_sessions, sqlite_sequence, clock>>

\* init_session_state
InitialSessionState ==
  [current_story_id |-> 0,
   current_polish_session |-> 0,
   story_mode |-> "new",
   pending_ai_continuation |-> FALSE,
   temp_ai_style |-> "creative",
   selected_ai_style |-> "creative",
   confirm_delete |-> {}]    \* the story ids whose confirm_delete_{id} is True

\* The locals of a script run that is not in progress.
NoRun ==
  [kind |-> "none", story_text |-> "", chapters |-> << >>, new_chapter |-> "",
   user_rating_score |-> 0, user_rating_text |-> NoText, rated |-> "no",
   previous_ratings |-> << >>, rating_context |-> NoDirective,
   feedbacks |-> << >>, ai_chapter |-> "", original_text |-> "",
   polished_text |-> ""]

\* init_db on an empty file, and a fresh session state per session.
Init ==
  /\ stories = << >>
  /\ chapters = << >>
  /\ polish_sessions = << >>
  /\ sqlite_sequence = [stories |-> 0, chapters |-> 0, polish_sessions |-> 0]
  /\ clock = 0
  /\ session_state = [s \in Sessions |-> InitialSessionState]
  /\ pc = [s \in Sessions |-> "idle"]
  /\ run = [s \in Sessions |-> NoRun]
  /\ substituted = {}
  /\ refused = {}
  /\ api_key = "sk-key"

\* ------------------------------------------------------- database helpers
\* ORDER BY of a sequence of rows whose keys are keys[i]: rows with equal keys
\* keep their insertion (rowid) order.
OrderByAsc(rows, keys) ==
  LET n == Len(rows)
      rank(i) == 1 + Cardinality({j \in 1..n : keys[j] < keys[i]
                                               \/ (keys[j] = keys[i] /\ j < i)})
  IN  [p \in 1..n |-> rows[CHOOSE i \in 1..n : rank(i) = p]]

OrderByDesc(rows, keys) ==
  OrderByAsc(rows, [i \in 1..Len(keys) |-> 0 - keys[i]])

\* get_stories: SELECT ... FROM stories ORDER BY last_updated DESC
get_stories ==
  OrderByDesc(stories, [i \in 1..Len(stories) |-> stories[i].last_updated])

\* get_story_details: the row of the story, << >> for fetchone() = None
get_story_details(story_id) ==
  SelectSeq(stories, LAMBDA r : r.id = story_id)

\* Faulty variant of get_chapters: ORDER BY chapter_number DESC.
get_chapters_newest_first(story_id) ==
  LET rows == SelectSeq(chapters, LAMBDA r : r.story_id = story_id)
  IN  OrderByDesc(rows, [i \in 1..Len(rows) |-> rows[i].chapter_number])

\* get_chapters: SELECT ... WHERE story_id = ? ORDER BY chapter_number
get_chapters(story_id) ==
  LET rows == SelectSeq(chapters, LAMBDA r : r.story_id = story_id)
  IN  OrderByAsc(rows, [i \in 1..Len(rows) |-> rows[i].chapter_number])

\* Faulty variant of RatedSessions: "user_rating IS NOT NULL" is left out.
RatedSessions_any_rating(story_id) ==
  SelectSeq(polish_sessions, LAMBDA r : r.story_id = story_id)

\* get_user_rating_history: the 5 newest polish sessions of the story that
\* carry a human rating, newest first, as (user_rating, feedback)
RatedSessions(story_id) ==
  SelectSeq(polish_sessions,
            LAMBDA r : r.story_id = story_id /\ r.user_rating # 0)

\* Faulty variant of get_user_rating_history: ORDER BY created_at without DESC.
get_user_rating_history_oldest_first(story_id) ==
  LET rated == RatedSessions(story_id)
      n == Len(rated)
      k == IF n < 5 THEN n ELSE 5
  IN  [i \in 1..k |-> <<rated[i].user_rating, rated[i].feedback>>]

get_user_rating_history(story_id) ==
  LET rated == RatedSessions(story_id)
      n == Len(rated)
      k == IF n < 5 THEN n ELSE 5
  IN  [i \in 1..k |-> <<rated[n + 1 - i].user_rating, rated[n + 1 - i].feedback>>]

\* f"Chapter {chapter_num}"
ChapterKey(chapter_num) ==
  CASE chapter_num = 1 -> "Chapter 1"
    [] chapter_num = 2 -> "Chapter 2"
    [] chapter_num = 3 -> "Chapter 3"
    [] chapter_num = 4 -> "Chapter 4"
    [] chapter_num = 5 -> "Chapter 5"
    [] chapter_num = 6 -> "Chapter 6"
    [] chapter_num = 7 -> "Chapter 7"
    [] chapter_num = 8 -> "Chapter 8"
    [] chapter_num = 9 -> "Chapter 9"
    [] chapter_num = 10 -> "Chapter 10"
    [] chapter_num = 11 -> "Chapter 11"
    [] OTHER -> "Chapter 12+"

\* The row create_story inserts.
StoryRow(title, user_text) ==
  [id |-> sqlite_sequence.stories + 1, title |-> title, user_text |-> user_text,
   created_at |-> clock + 1, last_updated |-> clock + 1]

\* The row add_chapter inserts (user_rating is left NULL).
ChapterRow(story_id, chapter_number, user_content, ai_content, ai_style, ai_rating) ==
  [id |-> sqlite_sequence.chapters + 1, story_id |-> story_id,
   chapter_number |-> chapter_number, user_content |-> user_content,
   ai_content |-> ai_content, ai_style |-> ai_style, user_rating |-> 0,
   ai_rating |-> ai_rating]

\* The row store_ai_feedback inserts into polish_sessions.
FeedbackRow(story_id, chapter_num, feedback) ==
  [id |-> sqlite_sequence.polish_sessions + 1, story_id |-> story_id,
   original_text |-> ChapterKey(chapter_num), polished_text |-> "",
   ai_rating |-> 0, user_rating |-> 0, feedback |-> feedback]

\* get_ai_feedback: the newest feedback stored under the key, NoText for None
get_ai_feedback(story_id, chapter_num) ==
  LET hits == SelectSeq(polish_sessions,
                        LAMBDA r : r.story_id = story_id
                                   /\ r.original_text = ChapterKey(chapter_num))
  IN  IF hits = << >> THEN NoText ELSE hits[Len(hits)].feedback

\* ------------------------------------------------- story writing mode
\* The keys a deployment may be configured with: none, one that does not start
\* with "sk-", and one that does.
APIKeys == {"", "key", "sk-key"}
StartsWithSk(key) == key = "sk-key"
NoClient == "None"

\* Faulty variant of get_openai_client: any key that is not empty is accepted.
get_openai_client_any_key(key) ==
  IF key # "" THEN "OpenAI" ELSE NoClient

\* get_openai_client: a client when a key is configured and starts with "sk-",
\* else None
get_openai_client(key) ==
  IF key # "" /\ StartsWithSk(key) THEN "OpenAI" ELSE NoClient

\* A script run of the session may start: no run of it is under way, and main
\* gets past its client check ("if not client: ... return") into a mode.
Idle(s) == pc[s] = "idle" /\ get_openai_client(api_key) # NoClient

\* The branch of story_writing_mode that shows the current story is taken.
StoryShown(s) ==
  /\ session_state[s].story_mode = "continue"
  /\ session_state[s].current_story_id # 0
  /\ get_story_details(session_state[s].current_story_id) # << >>

\* Turns whose chapter row is still to be inserted.
InFlight == {s \in Sessions : pc[s] \in {"rating", "generating", "generated"}}

\* Faulty variant of button_disabled: the threshold off by one.
button_disabled_off_by_one(word_count) == word_count < MinWords - 1

\* button_disabled = word_count < 200
button_disabled(word_count) == word_count < MinWords

\* next_chapter_num = len(chapters) + 1
next_chapter_num(chapters_read) == Len(chapters_read) + 1

\* user_chapter_num, the key the feedback of a continuation is stored under
user_chapter_num(len_chapters) ==
  IF len_chapters = 1 THEN 3 ELSE len_chapters * 2 + 1

\* context = story_details[1] + "\n\n", then one entry per chapter read
BuildContext(story_text, chapters_read) ==
  [opening |-> story_text,
   entries |-> [i \in 1..Len(chapters_read) |->
                  [ch_num |-> chapters_read[i].chapter_number,
                   user_cont |-> chapters_read[i].user_content,
                   ai_cont |-> chapters_read[i].ai_content]]]

\* len(str(ch_num))
Digits(n) == IF n < 10 THEN 1 ELSE 2

\* len(context) of the string the context is: the opening text and "\n\n",
\* then f"Chapter {ch_num}: {user_cont}\n{ai_cont}\n\n" per chapter read
RECURSIVE EntriesLength(_)
EntriesLength(entries) ==
  IF entries = << >> THEN 0
  ELSE 8 + Digits(entries[1].ch_num) + 2 + CharCount(entries[1].user_cont) + 1
         + CharCount(entries[1].ai_cont) + 2 + EntriesLength(Tail(entries))

context_length(context) ==
  CharCount(context.opening) + 2 + EntriesLength(context.entries)

\* charBudget of the design's buildContext, the largest of its defaults.
CharBudget == 4000

\* "Create New Story" button
ClickCreateNewStory(s) ==
  /\ Idle(s)
  /\ session_state' = [session_state EXCEPT ![s].story_mode = "new",
                                            ![s].current_story_id = 0]
  /\ UNCHANGED <<api_key, db, pc, run, substituted, refused>>

\* "Continue Existing Story" button, shown when there are stories
ClickContinueExisting(s) ==
  /\ Idle(s)
  /\ get_stories # << >>
  /\ session_state' = [session_state EXCEPT ![s].story_mode = "continue"]
  /\ UNCHANGED <<api_key, db, pc, run, substituted, refused>>

\* New-story form: title, opening text, "Let AI continue the story"
StartStory(s) ==
  /\ Idle(s)
  /\ session_state[s].story_mode = "new"
  /\ \E story_title \in TypedTitles, user_text \in TypedTexts(s) :
       /\ story_title # ""
       /\ ~button_disabled(WordCount(user_text))
       /\ stories' = Append(stories, StoryRow(story_title, user_text))
       /\ sqlite_sequence' =
            [sqlite_sequence EXCEPT !.stories = sqlite_sequence.stories + 1]
       /\ clock' = clock + 1
       /\ session_state' =
            [session_state EXCEPT
               ![s].current_story_id = sqlite_sequence.stories + 1,
               ![s].story_mode = "continue",
               ![s].temp_ai_style = session_state[s].selected_ai_style,
               ![s].pending_ai_continuation = TRUE]
       /\ UNCHANGED <<api_key, chapters, polish_sessions, pc, run, substituted, refused>>

\* New-story form with an opening text that leaves the button disabled: no
\* click reaches the script
StartStoryDisabled(s) ==
  /\ Idle(s)
  /\ session_state[s].story_mode = "new"
  /\ \E story_title \in TypedTitles, user_text \in TypedTexts(s) :
       /\ story_title # ""
       /\ button_disabled(WordCount(user_text))
  /\ refused' = refused \cup {"opening"}
  /\ UNCHANGED <<api_key, db, session_state, pc, run, substituted>>

\* One of the style buttons, shown on the new-story form and under a shown story
SelectStyle(s) ==
  /\ Idle(s)
  /\ \/ session_state[s].story_mode = "new"
     \/ StoryShown(s) /\ ~session_state[s].pending_ai_continuation
  /\ \E style \in StyleChoices :
       session_state' = [session_state EXCEPT ![s].selected_ai_style = style]
  /\ UNCHANGED <<api_key, db, pc, run, substituted, refused>>

\* story_options.index(selected_title): the first story with that title
IndexOfTitle(listed, selected_title) ==
  CHOOSE i \in 1..Len(listed) :
    /\ listed[i].title = selected_title
    /\ \A j \in 1..(i - 1) : listed[j].title # selected_title

\* Story selector and "Load Story" button
LoadStory(s) ==
  /\ Idle(s)
  /\ session_state[s].story_mode = "continue"
  /\ session_state[s].current_story_id = 0
  /\ LET listed == get_stories
     IN  /\ listed # << >>
         /\ \E k \in 1..Len(listed) :
              session_state' =
                [session_state EXCEPT ![s].current_story_id =
                   listed[IndexOfTitle(listed, listed[k].title)].id]
  /\ UNCHANGED <<api_key, db, pc, run, substituted, refused>>

\* Story list mode: "Continue This Story" of a listed story
ContinueThisStory(s) ==
  /\ Idle(s)
  /\ \E k \in 1..Len(get_stories) :
       session_state' = [session_state EXCEPT
                           ![s].current_story_id = get_stories[k].id,
                           ![s].story_mode = "continue"]
  /\ UNCHANGED <<api_key, db, pc, run, substituted, refused>>

\* A run with pending_ai_continuation set: reads the story and its chapters and
\* calls the rating collaborator on the opening text
RunPendingContinuation(s) ==
  /\ Idle(s)
  /\ StoryShown(s)
  /\ session_state[s].pending_ai_continuation
  /\ LET story_details == get_story_details(session_state[s].current_story_id)[1]
     IN  run' = [run EXCEPT ![s] =
                   [NoRun EXCEPT !.kind = "first",
                                 !.story_text = story_details.user_text,
                                 !.chapters = get_chapters(session_state[s].current_story_id)]]
  /\ pc' = [pc EXCEPT ![s] = "rating"]
  /\ UNCHANGED <<api_key, db, session_state, substituted, refused>>

\* Next-chapter form under a shown story: reads the story and its chapters,
\* builds the context and calls the rating collaborator on the new chapter
SubmitChapter(s) ==
  /\ Idle(s)
  /\ StoryShown(s)
  /\ ~session_state[s].pending_ai_continuation
  /\ \E new_chapter \in TypedTexts(s) :
       /\ ~button_disabled(WordCount(new_chapter))
       /\ LET story_details == get_story_details(session_state[s].current_story_id)[1]
          IN  run' = [run EXCEPT ![s] =
                        [NoRun EXCEPT !.kind = "next",
                                      !.story_text = story_details.user_text,
                                      !.chapters = get_chapters(session_state[s].current_story_id),
                                      !.new_chapter = new_chapter]]
  /\ pc' = [pc EXCEPT ![s] = "rating"]
  /\ UNCHANGED <<api_key, db, session_state, substituted, refused>>

\* Next-chapter form with a text that leaves the button disabled
SubmitChapterDisabled(s) ==
  /\ Idle(s)
  /\ StoryShown(s)
  /\ ~session_state[s].pending_ai_continuation
  /\ \E new_chapter \in TypedTexts(s) : button_disabled(WordCount(new_chapter))
  /\ refused' = refused \cup {"continuation"}
  /\ UNCHANGED <<api_key, db, session_state, pc, run, substituted>>

\* rate_user_writing ends with the given outcome of the collaborator call; a
\* continuation then reads the rating history, and both paths call the
\* continuation collaborator
RatingEnds(s, outcome) ==
  /\ pc[s] = "rating"
  /\ LET r == rate_user_writing(outcome)
     IN  run' = [run EXCEPT
                   ![s].user_rating_score = r.rating,
                   ![s].user_rating_text = r.text,
                   ![s].rated = IF outcome = RateFailure THEN "default" ELSE "reply",
                   ![s].previous_ratings =
                      IF run[s].kind = "next"
                      THEN get_user_rating_history(session_state[s].current_story_id)
                      ELSE << >>,
                   ![s].rating_context =
                      IF run[s].kind = "next"
                      THEN generation_rating_context(
                             get_user_rating_history(session_state[s].current_story_id))
                      ELSE NoDirective]
  /\ pc' = [pc EXCEPT ![s] = "generating"]
  /\ UNCHANGED <<api_key, db, session_state, substituted, refused>>

\* The rating collaborator replies
RatingReturns(s) == \E outcome \in RateReplies : RatingEnds(s, outcome)

\* The rating collaborator call raises
RatingFails(s) == RatingEnds(s, RateFailure)

\* Faulty variant of ContinuationEnds: the continuation is asked for without waiting
\* for the rating call to end.
ContinuationEnds_unordered(s, outcome) ==
  /\ pc[s] \in {"rating", "generating"}
  /\ run' = [run EXCEPT ![s].ai_chapter = generate_result(outcome)]
  /\ pc' = [pc EXCEPT ![s] = "generated"]
  /\ UNCHANGED <<api_key, db, session_state, substituted, refused>>

\* generate_next_chapter ends with the given outcome of the collaborator call
ContinuationEnds(s, outcome) ==
  /\ pc[s] = "generating"
  /\ run' = [run EXCEPT ![s].ai_chapter =
                generate_next_chapter(run[s].previous_ratings, outcome)]
  /\ pc' = [pc EXCEPT ![s] = "generated"]
  /\ UNCHANGED <<api_key, db, session_state, substituted, refused>>

\* The continuation collaborator replies
ContinuationReturns(s) == \E outcome \in GenReplies : ContinuationEnds(s, outcome)

\* The continuation collaborator call raises or times out
ContinuationFails(s) == ContinuationEnds(s, GenFailure)

\* story_context, the context argument of generate_next_chapter: the opening
\* text alone for the pending continuation, the built context otherwise
story_context(s) ==
  IF run[s].kind = "first"
  THEN [opening |-> run[s].story_text, entries |-> << >>]
  ELSE BuildContext(run[s].story_text, run[s].chapters)

\* Faulty variant of SavedChapter: a continuation turn's human text is not
\* stored either.
SavedChapter_without_user_content(s) ==
  ChapterRow(session_state[s].current_story_id,
             IF run[s].kind = "first" THEN 1 ELSE next_chapter_num(run[s].chapters),
             "", run[s].ai_chapter,
             IF run[s].kind = "first" THEN session_state[s].temp_ai_style
             ELSE session_state[s].selected_ai_style,
             run[s].user_rating_score)

\* The chapter row a run saves: chapter 1 with empty user_content for the
\* pending continuation, len(chapters) + 1 with the new chapter otherwise
SavedChapter(s) ==
  IF run[s].kind = "first"
  THEN ChapterRow(session_state[s].current_story_id, 1, "", run[s].ai_chapter,
                  session_state[s].temp_ai_style, run[s].user_rating_score)
  ELSE ChapterRow(session_state[s].current_story_id,
                  next_chapter_num(run[s].chapters), run[s].new_chapter,
                  run[s].ai_chapter, session_state[s].selected_ai_style,
                  run[s].user_rating_score)

\* add_chapter commits
AddChapter(s) ==
  /\ pc[s] = "generated"
  /\ chapters' = Append(chapters, SavedChapter(s))
  /\ sqlite_sequence' =
       [sqlite_sequence EXCEPT !.chapters = sqlite_sequence.chapters + 1]
  /\ clock' = clock + 1
  /\ substituted' = IF run[s].rated = "default"
                    THEN substituted \cup {sqlite_sequence.chapters + 1}
                    ELSE substituted
  /\ pc' = [pc EXCEPT ![s] = "feedback"]
  /\ UNCHANGED <<api_key, stories, polish_sessions, session_state, run, refused>>

\* add_chapter raises (sqlite3 error): the run ends with the exception
AddChapterFails(s) ==
  /\ pc[s] = "generated"
  /\ pc' = [pc EXCEPT ![s] = "idle"]
  /\ run' = [run EXCEPT ![s] = NoRun]
  /\ UNCHANGED <<api_key, db, session_state, substituted, refused>>

\* store_ai_feedback commits and the run ends with st.rerun()
StoreFeedback(s) ==
  /\ pc[s] = "feedback"
  /\ polish_sessions' =
       Append(polish_sessions,
              FeedbackRow(session_state[s].current_story_id,
                          IF run[s].kind = "first" THEN 1
                          ELSE user_chapter_num(Len(run[s].chapters)),
                          run[s].user_rating_text))
  /\ sqlite_sequence' =
       [sqlite_sequence EXCEPT !.polish_sessions = sqlite_sequence.polish_sessions + 1]
  /\ clock' = clock + 1
  /\ session_state' =
       IF run[s].kind = "first"
       THEN [session_state EXCEPT ![s].pending_ai_continuation = FALSE,
                                  ![s].temp_ai_style = "creative"]
       ELSE session_state
  /\ pc' = [pc EXCEPT ![s] = "idle"]
  /\ run' = [run EXCEPT ![s] = NoRun]
  /\ UNCHANGED <<api_key, stories, chapters, substituted, refused>>

\* store_ai_feedback raises (sqlite3 error): the run ends with the exception,
\* after add_chapter has committed
StoreFeedbackFails(s) ==
  /\ pc[s] = "feedback"
  /\ pc' = [pc EXCEPT ![s] = "idle"]
  /\ run' = [run EXCEPT ![s] = NoRun]
  /\ UNCHANGED <<api_key, db, session_state, substituted, refused>>

\* The chapter whose rating form is on the page: the first chapter shown
\* without a human rating (its form is drawn twice under one widget key, which
\* ends the script run before any later chapter is drawn); 0 for none.
RatableChapter(chapters_read) ==
  LET unrated == {i \in 1..Len(chapters_read) : chapters_read[i].user_rating = 0}
  IN  IF unrated = {} THEN 0
      ELSE CHOOSE i \in unrated : \A j \in unrated : i <= j

\* Faulty variant of update_chapter_rating: the rating is written over the
\* generated text as well.
update_chapter_rating_over_text(story_id, chapter_number, user_rating) ==
  [i \in 1..Len(chapters) |->
     IF chapters[i].story_id = story_id /\ chapters[i].chapter_number = chapter_number
     THEN [chapters[i] EXCEPT !.user_rating = user_rating, !.ai_content = ""]
     ELSE chapters[i]]

\* update_chapter_rating: UPDATE chapters SET user_rating = ? WHERE story_id = ?
\* AND chapter_number = ?
update_chapter_rating(story_id, chapter_number, user_rating) ==
  [i \in 1..Len(chapters) |->
     IF chapters[i].story_id = story_id /\ chapters[i].chapter_number = chapter_number
     THEN [chapters[i] EXCEPT !.user_rating = user_rating]
     ELSE chapters[i]]

\* "Rate this chapter" and "Submit" next to a generated chapter
SubmitChapterRating(s, rating) ==
  /\ Idle(s)
  /\ StoryShown(s)
  /\ ~session_state[s].pending_ai_continuation
  /\ rating \in RatingOptions
  /\ LET chapters_read == get_chapters(session_state[s].current_story_id)
         shown == RatableChapter(chapters_read)
     IN  /\ shown # 0
         /\ chapters' = update_chapter_rating(session_state[s].current_story_id,
                                              chapters_read[shown].chapter_number,
                                              rating)
  /\ UNCHANGED <<api_key, stories, polish_sessions, sqlite_sequence, clock,
                 session_state, pc, run, substituted, refused>>

RateChapter(s) == \E rating \in PickedRatings : SubmitChapterRating(s, rating)

\* ------------------------------------------------- text polishing mode
\* The row add_polish_session inserts (user_rating and feedback left NULL).
PolishRow(story_id, original_text, polished_text, ai_rating) ==
  [id |-> sqlite_sequence.polish_sessions + 1, story_id |-> story_id,
   original_text |-> original_text, polished_text |-> polished_text,
   ai_rating |-> ai_rating, user_rating |-> 0, feedback |-> NoText]

\* update_polish_rating: UPDATE polish_sessions SET user_rating = ?,
\* feedback = ? WHERE id = ?
update_polish_rating(session_id, user_rating, feedback) ==
  [i \in 1..Len(polish_sessions) |->
     IF polish_sessions[i].id = session_id
     THEN [polish_sessions[i] EXCEPT !.user_rating = user_rating,
                                     !.feedback = feedback]
     ELSE polish_sessions[i]]

\* "Polish My Writing" on a text that is not empty: reads the rating history
\* of current_story_id or 0 and calls the rating collaborator
PolishText(s, original_text) ==
  /\ Idle(s)
  /\ original_text # ""
  /\ run' = [run EXCEPT ![s] =
               [NoRun EXCEPT !.kind = "polish",
                             !.original_text = original_text,
                             !.previous_ratings =
                                get_user_rating_history(session_state[s].current_story_id)]]
  /\ pc' = [pc EXCEPT ![s] = "polish_rating"]
  /\ UNCHANGED <<api_key, db, session_state, substituted, refused>>

\* rate_user_writing ends during a polish run, and polish_writing builds its
\* instructions and calls the polishing collaborator
PolishRatingEnds(s, outcome) ==
  /\ pc[s] = "polish_rating"
  /\ LET r == rate_user_writing(outcome)
         context == polish_rating_context(run[s].previous_ratings)
     IN  run' = [run EXCEPT
                   ![s].user_rating_score = r.rating,
                   ![s].user_rating_text = r.text,
                   ![s].rated = IF outcome = RateFailure THEN "default" ELSE "reply",
                   ![s].rating_context = context.directive,
                   ![s].feedbacks = context.feedbacks]
  /\ pc' = [pc EXCEPT ![s] = "polishing"]
  /\ UNCHANGED <<api_key, db, session_state, substituted, refused>>

\* polish_writing ends with the given outcome of the collaborator call
PolishingEnds(s, outcome) ==
  /\ pc[s] = "polishing"
  /\ run' = [run EXCEPT ![s].polished_text =
                polish_writing(run[s].previous_ratings, outcome)]
  /\ pc' = [pc EXCEPT ![s] = "polish_saving"]
  /\ UNCHANGED <<api_key, db, session_state, substituted, refused>>

\* add_polish_session commits, the session becomes the current one and the
\* run ends with st.rerun()
AddPolishSession(s) ==
  /\ pc[s] = "polish_saving"
  /\ polish_sessions' =
       Append(polish_sessions,
              PolishRow(session_state[s].current_story_id, run[s].original_text,
                        run[s].polished_text, run[s].user_rating_score))
  /\ sqlite_sequence' =
       [sqlite_sequence EXCEPT !.polish_sessions = sqlite_sequence.polish_sessions + 1]
  /\ clock' = clock + 1
  /\ session_state' = [session_state EXCEPT
                         ![s].current_polish_session = sqlite_sequence.polish_sessions + 1]
  /\ pc' = [pc EXCEPT ![s] = "idle"]
  /\ run' = [run EXCEPT ![s] = NoRun]
  /\ UNCHANGED <<api_key, stories, chapters, substituted, refused>>

\* Faulty variant of SubmitPolishRating: the session stays the current one, and
\* its form stays on the page.
SubmitPolishRating_keeps_session(s, user_rating, feedback) ==
  /\ Idle(s)
  /\ session_state[s].current_polish_session # 0
  /\ \E i \in 1..Len(polish_sessions) :
       polish_sessions[i].id = session_state[s].current_polish_session
  /\ user_rating \in RatingOptions
  /\ polish_sessions' = update_polish_rating(session_state[s].current_polish_session,
                                             user_rating, feedback)
  /\ UNCHANGED <<api_key, stories, chapters, sqlite_sequence, clock, session_state,
                 pc, run, substituted, refused>>

\* "Submit Rating" under the polished text of the current polish session
SubmitPolishRating(s, user_rating, feedback) ==
  /\ Idle(s)
  /\ session_state[s].current_polish_session # 0
  /\ \E i \in 1..Len(polish_sessions) :
       polish_sessions[i].id = session_state[s].current_polish_session
  /\ user_rating \in RatingOptions
  /\ polish_sessions' = update_polish_rating(session_state[s].current_polish_session,
                                             user_rating, feedback)
  /\ session_state' = [session_state EXCEPT ![s].current_polish_session = 0]
  /\ UNCHANGED <<api_key, stories, chapters, sqlite_sequence, clock, pc, run,
                 substituted, refused>>

RatePolish(s) ==
  \E user_rating \in PickedRatings :
    \E feedback \in {NoText, FeedbackOn(session_state[s].current_polish_session)} :
      SubmitPolishRating(s, user_rating, feedback)

\* The key get_ai_feedback is queried with for the human text shown from the
\* idx-th chapter read: the first row with no human text is skipped, its
\* feedback is shown with the opening under key 1; the rows shown are counted
\* and the k-th has key k * 2 + 1.
displayed_chapter_num(chapters_read, idx) ==
  LET skipped == IF chapters_read[1].user_content = "" THEN 1 ELSE 0
  IN  IF idx = 1 /\ skipped = 1 THEN 1
      ELSE (idx - skipped) * 2 + 1

\* ------------------------------------------------------- story list mode
\* The rows behind ai_ratings = [ch[5] for ch in chapters if ch[5]], the list
\* "Avg AI Rating" averages
ai_rated_chapters(story_id) ==
  SelectSeq(get_chapters(story_id), LAMBDA ch : ch.ai_rating # 0)

\* Faulty variant of delete_story: the polish sessions of the story are kept.
delete_story_keeps_polish_sessions(story_id) ==
  [stories |-> SelectSeq(stories, LAMBDA st : st.id # story_id),
   chapters |-> SelectSeq(chapters, LAMBDA ch : ch.story_id # story_id),
   polish_sessions |-> polish_sessions]

\* delete_story: DELETE FROM chapters WHERE story_id = ?, DELETE FROM
\* polish_sessions WHERE story_id = ?, DELETE FROM stories WHERE id = ?, and
\* one commit; the three tables as they are after it
delete_story(story_id) ==
  [stories |-> SelectSeq(stories, LAMBDA st : st.id # story_id),
   chapters |-> SelectSeq(chapters, LAMBDA ch : ch.story_id # story_id),
   polish_sessions |->
     SelectSeq(polish_sessions, LAMBDA ps : ps.story_id # story_id)]

\* Story list mode: "Delete" of a listed story asks for confirmation
ClickDelete(s, story_id) ==
  /\ Idle(s)
  /\ \E k \in 1..Len(get_stories) : get_stories[k].id = story_id
  /\ story_id \notin session_state[s].confirm_delete
  /\ session_state' = [session_state EXCEPT
                         ![s].confirm_delete = @ \cup {story_id}]
  /\ UNCHANGED <<api_key, db, pc, run, substituted, refused>>

\* "Yes, delete" under a listed story that awaits confirmation: delete_story
\* commits, the flag is cleared, and the session lets go of the story
ConfirmDelete(s, story_id) ==
  /\ Idle(s)
  /\ \E k \in 1..Len(get_stories) : get_stories[k].id = story_id
  /\ story_id \in session_state[s].confirm_delete
  /\ stories' = delete_story(story_id).stories
  /\ chapters' = delete_story(story_id).chapters
  /\ polish_sessions' = delete_story(story_id).polish_sessions
  /\ session_state' = [session_state EXCEPT
                         ![s].confirm_delete = @ \ {story_id},
                         ![s].current_story_id =
                            IF @ = story_id THEN 0 ELSE @]
  /\ UNCHANGED <<api_key, sqlite_sequence, clock, pc, run, substituted, refused>>

\* "Cancel" under a listed story that awaits confirmation
CancelDelete(s, story_id) ==
  /\ Idle(s)
  /\ \E k \in 1..Len(get_stories) : get_stories[k].id = story_id
  /\ story_id \in session_state[s].confirm_delete
  /\ session_state' = [session_state EXCEPT
                         ![s].confirm_delete = @ \ {story_id}]
  /\ UNCHANGED <<api_key, db, pc, run, substituted, refused>>

\* The delete buttons of the story list, for every story ever created.
DeleteStory(s) ==
  \E story_id \in 1..sqlite_sequence.stories :
    \/ ClickDelete(s, story_id)
    \/ ConfirmDelete(s, story_id)
    \/ CancelDelete(s, story_id)

\* ------------------------------------------------------- specifications
\* Moving between the forms of story writing mode and the story list.
Navigate(s) ==
  \/ ClickCreateNewStory(s)
  \/ ClickContinueExisting(s)
  \/ LoadStory(s)
  \/ ContinueThisStory(s)

\* A turn begins.
BeginTurn(s) ==
  \/ RunPendingContinuation(s)
  \/ SubmitChapter(s)

\* A text too short for the button.
ShortText(s) ==
  \/ StartStoryDisabled(s)
  \/ SubmitChapterDisabled(s)

\* A turn goes on with both collaborators answering and the database writing.
TurnStep(s) ==
  \/ RatingReturns(s)
  \/ ContinuationReturns(s)
  \/ AddChapter(s)
  \/ StoreFeedback(s)

\* A collaborator call fails.
CollaboratorFault(s) ==
  \/ RatingFails(s)
  \/ ContinuationFails(s)

\* A database write raises.
DatabaseFault(s) ==
  \/ AddChapterFails(s)
  \/ StoreFeedbackFails(s)

\* The bounds of a specification: stories ever created, and chapter rows
\* stored or about to be.
StoriesBelow(n) == sqlite_sequence.stories < n
ChaptersBelow(n) == Len(chapters) + Cardinality(InFlight) < n

\* One session, with every failure of the collaborators and of the database.
Next ==
  \/ Navigate("s1")
  \/ ShortText("s1")
  \/ StoriesBelow(MaxStories) /\ StartStory("s1")
  \/ ChaptersBelow(MaxChapters) /\ BeginTurn("s1")
  \/ TurnStep("s1")
  \/ CollaboratorFault("s1")
  \/ DatabaseFault("s1")

Spec == Init /\ [][Next]_vars

\* Every session, with every failure.
NextAll ==
  \E s \in Sessions :
    \/ Navigate(s)
    \/ ShortText(s)
    \/ StoriesBelow(MaxStories) /\ StartStory(s)
    \/ ChaptersBelow(MaxChapters) /\ BeginTurn(s)
    \/ TurnStep(s)
    \/ CollaboratorFault(s)
    \/ DatabaseFault(s)

SpecAll == Init /\ [][NextAll]_vars

\* One session, the collaborators may fail, the database does not.
NextSolo ==
  \/ Navigate("s1")
  \/ StoriesBelow(MaxSoloStories) /\ StartStory("s1")
  \/ ChaptersBelow(MaxSoloChapters) /\ BeginTurn("s1")
  \/ TurnStep("s1")
  \/ CollaboratorFault("s1")

SpecSolo == Init /\ [][NextSolo]_vars

\* Two sessions at once, nothing fails.
NextRace ==
  \E s \in Sessions :
    \/ Navigate(s)
    \/ StoriesBelow(MaxRaceStories) /\ StartStory(s)
    \/ ChaptersBelow(MaxRaceChapters) /\ BeginTurn(s)
    \/ TurnStep(s)

SpecRace == Init /\ [][NextRace]_vars

\* A polish run goes on with both collaborators answering.
PolishStep(s) ==
  \/ \E outcome \in RateReplies : PolishRatingEnds(s, outcome)
  \/ \E outcome \in PolishReplies : PolishingEnds(s, outcome)
  \/ AddPolishSession(s)

\* Polish sessions stored or about to be.
PolishBelow(n) ==
  Cardinality({i \in 1..Len(polish_sessions) : polish_sessions[i].polished_text # ""})
    + Cardinality({s \in Sessions : run[s].kind = "polish"}) < n

\* One session that writes a story, rates its generated chapters, polishes
\* texts and rates the polished texts; nothing fails.
NextRated ==
  \/ Navigate("s1")
  \/ StoriesBelow(MaxRatedStories) /\ StartStory("s1")
  \/ ChaptersBelow(MaxRatedChapters) /\ BeginTurn("s1")
  \/ TurnStep("s1")
  \/ RateChapter("s1")
  \/ PolishBelow(MaxRatedPolish) /\ PolishText("s1", "w199")
  \/ PolishStep("s1")
  \/ RatePolish("s1")

SpecRated == Init /\ [][NextRated]_vars

\* One session that polishes one text after another with the same replies,
\* and rates the polished texts or leaves them unrated.
NextPolish ==
  \/ PolishBelow(MaxPolishSessions) /\ PolishText("s1", "w199")
  \/ PolishRatingEnds("s1", Reply4)
  \/ PolishingEnds("s1", "P")
  \/ AddPolishSession("s1")
  \/ RatePolish("s1")

SpecPolish == Init /\ [][NextPolish]_vars

\* One session that writes a long story and rates its chapters, with the same
\* replies every turn.
NextLong ==
  \/ Navigate("s1")
  \/ StoriesBelow(MaxLongStories) /\ StartStory("s1")
  \/ ChaptersBelow(MaxLongChapters) /\ BeginTurn("s1")
  \/ RatingEnds("s1", Reply4)
  \/ ContinuationEnds("s1", "X")
  \/ AddChapter("s1")
  \/ StoreFeedback("s1")
  \/ RateChapter("s1")

SpecLong == Init /\ [][NextLong]_vars

\* A script run without client: main builds the tables and the session
\* defaults, which changes nothing here, shows the warning and returns before
\* any mode is entered.
MainWithoutClient(s) ==
  /\ pc[s] = "idle"
  /\ get_openai_client(api_key) = NoClient
  /\ refused' = refused \cup {"client"}
  /\ UNCHANGED <<api_key, db, session_state, pc, run, substituted>>

\* A deployment starts with any of the keys, or none.
InitClient ==
  /\ stories = << >>
  /\ chapters = << >>
  /\ polish_sessions = << >>
  /\ sqlite_sequence = [stories |-> 0, chapters |-> 0, polish_sessions |-> 0]
  /\ clock = 0
  /\ session_state = [s \in Sessions |-> InitialSessionState]
  /\ pc = [s \in Sessions |-> "idle"]
  /\ run = [s \in Sessions |-> NoRun]
  /\ substituted = {}
  /\ refused = {}
  /\ api_key \in APIKeys

\* One session of a deployment with any key: it writes a story, polishes a
\* text, rates the polished text and deletes the story, or its runs end at
\* main's client check.
NextClient ==
  \/ Navigate("s1")
  \/ StoriesBelow(MaxClientStories) /\ StartStory("s1")
  \/ ChaptersBelow(MaxClientChapters) /\ BeginTurn("s1")
  \/ TurnStep("s1")
  \/ PolishBelow(MaxClientPolish) /\ PolishText("s1", "w199")
  \/ PolishStep("s1")
  \/ RatePolish("s1")
  \/ DeleteStory("s1")
  \/ MainWithoutClient("s1")

SpecClient == InitClient /\ [][NextClient]_vars

\* One session that writes a story and polishes a text, the rating
\* collaborator answering with any reply or failing.
NextReplies ==
  \/ Navigate("s1")
  \/ StoriesBelow(MaxReplyStories) /\ StartStory("s1")
  \/ ChaptersBelow(MaxReplyChapters) /\ BeginTurn("s1")
  \/ \E outcome \in AnyReplies \cup {RateFailure} : RatingEnds("s1", outcome)
  \/ ContinuationEnds("s1", "X")
  \/ AddChapter("s1")
  \/ StoreFeedback("s1")
  \/ PolishBelow(MaxReplyPolish) /\ PolishText("s1", "w199")
  \/ \E outcome \in AnyReplies \cup {RateFailure} :
        PolishRatingEnds("s1", outcome)
  \/ PolishingEnds("s1", "P")
  \/ AddPolishSession("s1")

SpecReplies == Init /\ [][NextReplies]_vars

\* One session that writes stories, polishes texts, rates chapters and polished
\* texts, and deletes stories; nothing fails and the replies are the same
\* every time.
NextDelete ==
  \/ ClickCreateNewStory("s1")
  \/ ContinueThisStory("s1")
  \/ StoriesBelow(MaxDeleteStories) /\ StartStory("s1")
  \/ ChaptersBelow(MaxDeleteChapters) /\ BeginTurn("s1")
  \/ RatingEnds("s1", Reply4)
  \/ ContinuationEnds("s1", "X")
  \/ AddChapter("s1")
  \/ StoreFeedback("s1")
  \/ SubmitChapterRating("s1", 5)
  \/ PolishBelow(MaxDeletePolish) /\ PolishText("s1", "w199")
  \/ PolishRatingEnds("s1", Reply4)
  \/ PolishingEnds("s1", "P")
  \/ AddPolishSession("s1")
  \/ RatePolish("s1")
  \/ DeleteStory("s1")

SpecDelete == Init /\ [][NextDelete]_vars

\* One session that writes a story, reloads after a failed database write,
\* and rates the generated chapters.
NextRetry ==
  \/ Navigate("s1")
  \/ StoriesBelow(MaxRetryStories) /\ StartStory("s1")
  \/ ChaptersBelow(MaxRetryChapters) /\ BeginTurn("s1")
  \/ TurnStep("s1")
  \/ DatabaseFault("s1")
  \/ RateChapter("s1")

SpecRetry == Init /\ [][NextRetry]_vars

\* ----------------------------------------- the rating classification alone
\* generate_next_chapter and polish_writing applied to rating histories of at
\* most MaxClassified entries, an entry being (user_rating, feedback) with
\* user_rating None (0) or a number up to 5.
ClassifiedHistories ==
  UNION {[1..n -> (0..5) \X {NoText}] : n \in 0..MaxClassified}

InitClassify ==
  /\ stories = << >>
  /\ chapters = << >>
  /\ polish_sessions = << >>
  /\ sqlite_sequence = [stories |-> 0, chapters |-> 0, polish_sessions |-> 0]
  /\ clock = 0
  /\ session_state = [s \in Sessions |-> InitialSessionState]
  /\ pc = [s \in Sessions |-> IF s = "s1" THEN "classify" ELSE "idle"]
  /\ \E previous_ratings \in ClassifiedHistories :
       run = [s \in Sessions |->
                IF s = "s1"
                THEN [NoRun EXCEPT !.kind = "classify",
                                   !.previous_ratings = previous_ratings]
                ELSE NoRun]
  /\ substituted = {}
  /\ refused = {}
  /\ api_key = "sk-key"

\* generate_next_chapter is called with the history and the collaborator replies
ClassifyForContinuation(s) ==
  /\ pc[s] = "classify"
  /\ \E outcome \in GenReplies :
       run' = [run EXCEPT
                 ![s].rating_context =
                    generation_rating_context(run[s].previous_ratings),
                 ![s].ai_chapter =
                    generate_next_chapter(run[s].previous_ratings, outcome)]
  /\ pc' = [pc EXCEPT ![s] = "continued"]
  /\ UNCHANGED <<api_key, db, session_state, substituted, refused>>

\* polish_writing is called with the history and the collaborator replies
ClassifyForPolish(s) ==
  /\ pc[s] = "classify"
  /\ \E outcome \in PolishReplies :
       run' = [run EXCEPT
                 ![s].rating_context =
                    polish_rating_context(run[s].previous_ratings).directive,
                 ![s].feedbacks =
                    polish_rating_context(run[s].previous_ratings).feedbacks,
                 ![s].polished_text =
                    polish_writing(run[s].previous_ratings, outcome)]
  /\ pc' = [pc EXCEPT ![s] = "polished"]
  /\ UNCHANGED <<api_key, db, session_state, substituted, refused>>

NextClassify ==
  \/ ClassifyForContinuation("s1")
  \/ ClassifyForPolish("s1")

SpecClassify == InitClassify /\ [][NextClassify]_vars

\* ------------------------------------------------------------------ claims
StoryIds == 1..sqlite_sequence.stories

\* The chapter numbers of a story, in the order get_chapters returns them.
ChapterNumbers(story_id) ==
  LET rows == get_chapters(story_id)
  IN  [i \in 1..Len(rows) |-> rows[i].chapter_number]

\* The rows of a table, as a set.
Rows(table) == {table[i] : i \in 1..Len(table)}

\* C1: when two sessions submit turns for the same story at once, the chapter
\* rows of every story are numbered 1, 2, 3, ... with no number given twice
\* and none skipped.
C1_ConcurrentTurnsAreSerialized ==
  \A story_id \in StoryIds :
    \A i \in 1..Len(ChapterNumbers(story_id)) : ChapterNumbers(story_id)[i] = i

\* C2: a turn whose continuation call failed leaves the chapter table as it
\* was: the step that follows the failed call inserts no chapter row.
C2_FailedContinuationPersistsNothing ==
  [][\A s \in Sessions :
       (pc[s] = "generated" /\ run[s].ai_chapter = GenErrorText)
         => chapters' = chapters]_vars

\* C3: with one caller, the chapter numbers stored for a story are exactly
\* 1..k, k the number of its chapter rows.
C3_SoloChapterNumbersAreOneToK ==
  \A story_id \in StoryIds :
    LET rows == Rows(SelectSeq(chapters, LAMBDA r : r.story_id = story_id))
    IN  /\ {r.chapter_number : r \in rows} = 1..Cardinality(rows)
        /\ \A r1, r2 \in rows : r1.chapter_number = r2.chapter_number => r1 = r2

\* The text a run in progress has sent, or will send, to the rating collaborator.
RatedText(s) ==
  IF run[s].kind = "first" THEN run[s].story_text ELSE run[s].new_chapter

\* No text of fewer than 200 words is stored or under way to a collaborator.
OnlyLongTextsAccepted ==
  /\ \A r \in Rows(stories) : WordCount(r.user_text) >= 200
  /\ \A r \in Rows(chapters) :
       r.user_content = "" \/ WordCount(r.user_content) >= 200
  /\ \A s \in Sessions : pc[s] # "idle" => WordCount(RatedText(s)) >= 200

\* C4: a human segment of fewer than 200 words, as the opening of a new story
\* or as a continuation, reaches no collaborator and no table, and refusing
\* it changes neither the database nor any run.
C4_ShortSegmentRejected ==
  /\ []OnlyLongTextsAccepted
  /\ [][refused' # refused => UNCHANGED <<db, session_state, pc, run>>]_vars

\* C4 witness: short texts were refused on both forms, next to a story and a
\* chapter that were accepted.
C4_Witness ==
  /\ refused = {"opening", "continuation"}
  /\ \E r \in Rows(chapters) : r.user_content # ""

\* A run holds a generated chapter only after its rating call has ended, and
\* waits for the continuation only after it.
RatingBeforeContinuation ==
  \A s \in Sessions :
    /\ pc[s] \in {"generating", "generated", "feedback"} => run[s].rated # "no"
    /\ run[s].ai_chapter # "" => run[s].rated # "no"
    /\ pc[s] = "rating" => run[s].ai_chapter = ""

\* C5: in a turn the rating collaborator is called before the continuation
\* collaborator, and a chapter row is inserted only by a run that holds the
\* results of both calls, which are what the row stores.
C5_RateThenContinueThenPersist ==
  /\ []RatingBeforeContinuation
  /\ [][Len(chapters') > Len(chapters) =>
          \E s \in Sessions :
            /\ pc[s] = "generated" /\ pc'[s] = "feedback"
            /\ run[s].rated # "no" /\ run[s].ai_chapter # ""
            /\ chapters' = Append(chapters, chapters'[Len(chapters')])
            /\ chapters'[Len(chapters')].ai_rating = run[s].user_rating_score
            /\ chapters'[Len(chapters')].ai_content = run[s].ai_chapter]_vars

\* C5 witness: a continuation turn has inserted its chapter after both calls.
C5_Witness ==
  \E s \in Sessions :
    /\ pc[s] = "feedback" /\ run[s].kind = "next"
    /\ run[s].rated = "reply" /\ run[s].ai_chapter \in GenReplies
    /\ \E r \in Rows(chapters) : r.user_content = run[s].new_chapter

\* After a failed rating call the run goes on with 3 and the sentinel, and a
\* chapter row saved by such a run stores rating 3.
DefaultRatingCarriedOn ==
  /\ \A s \in Sessions :
       run[s].rated = "default" =>
         /\ pc[s] \in {"generating", "generated", "feedback"}
         /\ run[s].user_rating_score = 3
         /\ run[s].user_rating_text = UnableToRate
  /\ \A r \in Rows(chapters) : r.id \in substituted => r.ai_rating = 3

\* C6: a failed rating call does not abort the turn: 3 and the sentinel
\* rationale are substituted, the continuation collaborator is called next,
\* and the chapter a successful continuation leads to is stored with rating 3.
C6_RatingFailureDegrades ==
  /\ []DefaultRatingCarriedOn
  /\ [][\A s \in Sessions :
          (pc[s] = "rating" /\ pc'[s] # "rating") => pc'[s] = "generating"]_vars
  /\ [][\A s \in Sessions :
          (pc[s] = "generated" /\ pc'[s] = "feedback" /\ run[s].rated = "default")
            => /\ chapters'[Len(chapters')].ai_rating = 3
               /\ chapters'[Len(chapters')].ai_content = run[s].ai_chapter]_vars

\* C6 witness: a chapter with generated text is stored with the substituted 3.
C6_Witness ==
  \E r \in Rows(chapters) :
    /\ r.id \in substituted
    /\ r.ai_rating = 3
    /\ r.ai_content \in GenReplies
    /\ r.user_content # ""

\* C7: the 3 substituted after a failed rating call is not counted as a real
\* rating: it is in no rating history and in no list of ratings the program
\* averages.
C7_SubstitutedRatingNeverCounted ==
  \A story_id \in StoryIds :
    /\ \A i \in 1..Len(ai_rated_chapters(story_id)) :
         ai_rated_chapters(story_id)[i].id \notin substituted
    /\ \A i \in 1..Len(get_user_rating_history(story_id)) :
         get_user_rating_history(story_id)[i][2] # UnableToRate

\* The key store_ai_feedback is given for the turn saved as chapter n: 1 for
\* the pending continuation, user_chapter_num(len(chapters)) with
\* len(chapters) = n - 1 otherwise.
KeyOfChapter(n) == IF n = 1 THEN 1 ELSE user_chapter_num(n - 1)

ChapterRowsAt(story_id, n) ==
  {i \in 1..Len(chapters) :
     chapters[i].story_id = story_id /\ chapters[i].chapter_number = n}

RationaleRowsAt(story_id, n) ==
  {i \in 1..Len(polish_sessions) :
     /\ polish_sessions[i].story_id = story_id
     /\ polish_sessions[i].original_text = ChapterKey(KeyOfChapter(n))}

\* C8: a chapter row and the rationale of its turn are committed as one: in
\* every state a turn's chapter row is stored if and only if its rationale is.
C8_ChapterAndRationaleAreOneUnit ==
  \A story_id \in StoryIds :
    \A n \in 1..(Len(chapters) + 1) :
      Cardinality(ChapterRowsAt(story_id, n))
        = Cardinality(RationaleRowsAt(story_id, n))

\* C9: when add_chapter fails after the continuation collaborator returned
\* text, the generated text stays available to the session for a retry of
\* the save.
C9_GeneratedTextKeptWhenSaveFails ==
  [][\A s \in Sessions :
       (/\ pc[s] = "generated"
        /\ run[s].ai_chapter \in GenReplies
        /\ pc'[s] # "generated"
        /\ chapters' = chapters)
         => run'[s].ai_chapter = run[s].ai_chapter]_vars

\* C10: the context of the turn stored with index n + 1 holds the human and the
\* generated text of every chapter of the story that is committed with an
\* index in 1..n when the turn is stored.
C10_ContextReflectsCommittedChapters ==
  [][\A s \in Sessions :
       (pc[s] = "generated" /\ pc'[s] = "feedback") =>
         LET saved == SavedChapter(s)
             entries == story_context(s).entries
         IN  \A r \in Rows(chapters) :
               (r.story_id = saved.story_id
                /\ r.chapter_number < saved.chapter_number)
                 => \E i \in 1..Len(entries) :
                      /\ entries[i].user_cont = r.user_content
                      /\ entries[i].ai_cont = r.ai_content]_vars

\* C11: the first turn of a newly created story, with both collaborators
\* answering, stores a chapter row with chapter number 1 for that story, whose
\* ai_rating is the score in the rating collaborator's reply and whose
\* ai_content is the continuation collaborator's reply.
C11_FirstTurnStoresChapterOne ==
  [][\A s \in Sessions :
       (/\ pc[s] = "generated" /\ pc'[s] = "feedback"
        /\ run[s].kind = "first"
        /\ run[s].rated = "reply"
        /\ run[s].ai_chapter \in GenReplies)
         => LET row == chapters'[Len(chapters')]
            IN  /\ Len(chapters') = Len(chapters) + 1
                /\ row.story_id = session_state[s].current_story_id
                /\ row.chapter_number = 1
                /\ row.ai_rating = ParseInt(run[s].user_rating_text[1][2])
                /\ row.ai_content = run[s].ai_chapter]_vars

\* C11 witness: the first turn of a story was answered with score 4 and text
\* "X", and its row is stored as chapter 1 with rating 4 and text "X".
C11_Witness ==
  \E s \in Sessions :
    /\ pc[s] = "feedback" /\ run[s].kind = "first"
    /\ run[s].user_rating_text = Reply4 /\ run[s].ai_chapter = "X"
    /\ \E r \in Rows(chapters) :
         /\ r.story_id = session_state[s].current_story_id
         /\ r.chapter_number = 1 /\ r.ai_rating = 4 /\ r.ai_content = "X"

\* C12: every chapter row holds the human segment of its turn and the
\* generated segment paired with it; the row with index 1 holds the human
\* text the first continuation was generated from.
C12_EveryRowHoldsHumanAndGenerated ==
  \A r \in Rows(chapters) :
    /\ r.user_content # ""
    /\ r.ai_content # ""
    /\ r.chapter_number = 1 =>
         \E st \in Rows(stories) : st.id = r.story_id /\ st.user_text = r.user_content

\* A row without human text is a chapter 1 whose story row holds the opening
\* text, and every row holds a continuation text.
OpeningKeptInStoryRow ==
  \A r \in Rows(chapters) :
    /\ r.ai_content # ""
    /\ r.user_content = "" =>
         /\ r.chapter_number = 1
         /\ \E st \in Rows(stories) : st.id = r.story_id /\ WordCount(st.user_text) >= 200

\* C12 as amended: a row saved by a continuation turn holds the human text
\* submitted for the turn and what generate_next_chapter returned for it; the
\* row saved by a story's first turn has index 1 and an empty human text, the
\* text its continuation was generated from being the story row's user_text.
C12_RowHoldsTurnExceptOpening ==
  /\ []OpeningKeptInStoryRow
  /\ [][\A s \in Sessions :
          (pc[s] = "generated" /\ pc'[s] = "feedback") =>
            LET row == chapters'[Len(chapters')]
            IN  /\ row.ai_content = run[s].ai_chapter
                /\ run[s].kind = "first" =>
                     /\ row.chapter_number = 1
                     /\ row.user_content = ""
                     /\ \E st \in Rows(stories) :
                          st.id = row.story_id /\ st.user_text = run[s].story_text
                /\ run[s].kind = "next" =>
                     /\ row.user_content = run[s].new_chapter
                     /\ WordCount(row.user_content) >= 200]_vars

\* C12 witness: a story has the row of its first turn, without human text, and
\* the row of a continuation turn with the human text of that turn.
C12_Witness ==
  \E r1, r2 \in Rows(chapters) :
    /\ r1.story_id = r2.story_id
    /\ r1.chapter_number = 1 /\ r1.user_content = "" /\ r1.ai_content # ""
    /\ r2.chapter_number = 2 /\ r2.user_content = "w200" /\ r2.ai_content # ""

\* The ratings of a history, and the histories the claims are about.
RatingsOf(previous_ratings) ==
  [i \in 1..Len(previous_ratings) |-> previous_ratings[i][1]]

AllRated(previous_ratings) ==
  \A i \in 1..Len(previous_ratings) : previous_ratings[i][1] \in 1..5

\* C14: for a list of ratings in 1..5 the directive of the generation call is
\* "more engaging and creative" when the average is below 3, "maintain this
\* quality" when it is at least 4, and none otherwise; none for the empty list.
C14_DirectiveFollowsAverage ==
  \A s \in Sessions :
    (pc[s] = "continued" /\ AllRated(run[s].previous_ratings)) =>
      LET ratings == RatingsOf(run[s].previous_ratings)
          n == Len(ratings)
          total == SumRatings(run[s].previous_ratings)
      IN  /\ run[s].ai_chapter \in GenReplies
          /\ n = 0 => run[s].rating_context = NoDirective
          /\ (n > 0 /\ total < 3 * n) => run[s].rating_context = EngagingDirective
          /\ (n > 0 /\ total >= 4 * n) => run[s].rating_context = MaintainDirective
          /\ (n > 0 /\ total >= 3 * n /\ total < 4 * n)
               => run[s].rating_context = NoDirective

\* C14 witness: the ratings 5, 5, 4 were classified as "maintain this quality".
C14_Witness ==
  \E s \in Sessions :
    /\ pc[s] = "continued"
    /\ RatingsOf(run[s].previous_ratings) = <<5, 5, 4>>
    /\ run[s].rating_context = MaintainDirective

ChapterRatingWindow(story_id) ==
  LET rated == SelectSeq(chapters,
                         LAMBDA r : r.story_id = story_id /\ r.user_rating # 0)
      n == Len(rated)
      k == IF n < 5 THEN n ELSE 5
  IN  [i \in 1..k |-> <<rated[n + 1 - i].user_rating, NoText>>]

\* C13: the quality directive of a continuation turn is derived from the most
\* recent (at most 5) ratings the human gave to the generated chapters of the
\* story: "more engaging and creative" when they average below 3.
C13_DirectiveFromChapterRatings ==
  \A s \in Sessions :
    (pc[s] \in {"generating", "generated"} /\ run[s].kind = "next") =>
      LET window == ChapterRatingWindow(session_state[s].current_story_id)
      IN  /\ window # << >> =>
               run[s].rating_context = generation_rating_context(window)
          /\ (window # << >> /\ SumRatings(window) < 3 * Len(window)) =>
               run[s].rating_context = EngagingDirective

\* The polish sessions of a scope that carry a human rating, as row indices.
RatedIn(story_id) ==
  {i \in 1..Len(polish_sessions) :
     polish_sessions[i].story_id = story_id /\ polish_sessions[i].user_rating # 0}

\* The k-th newest of them.
NewestRated(story_id, k) ==
  CHOOSE i \in RatedIn(story_id) :
    Cardinality({j \in RatedIn(story_id) : j > i}) = k - 1

\* C16: the rating history of a scope has at most 5 entries, every entry is
\* the human rating and feedback of a polish session of the scope that carries
\* a human rating, and the entries are the most recent such sessions, the most
\* recent first.
C16_HistoryIsNewestFiveRated ==
  \A story_id \in {0} \cup StoryIds :
    LET history == get_user_rating_history(story_id)
        n == Cardinality(RatedIn(story_id))
    IN  /\ Len(history) <= 5
        /\ Len(history) = IF n < 5 THEN n ELSE 5
        /\ \A k \in 1..Len(history) :
             /\ history[k][1] \in 1..5
             /\ history[k] =
                  <<polish_sessions[NewestRated(story_id, k)].user_rating,
                    polish_sessions[NewestRated(story_id, k)].feedback>>

\* C16 witness: six polish sessions of one scope carry a human rating, and the
\* history holds the newest five of them, from the sixth down to the second.
C16_Witness ==
  /\ Cardinality(RatedIn(0)) = 6
  /\ Len(get_user_rating_history(0)) = 5
  /\ get_user_rating_history(0)[1][2] = FeedbackOn(6)
  /\ get_user_rating_history(0)[5][2] = FeedbackOn(2)

\* C17: when the rating history holds more than 2 feedback texts, the texts
\* appended to the polishing instructions are the 2 most recent of them.
C17_TwoNewestFeedbacksAppended ==
  \A s \in Sessions :
    (pc[s] \in {"polishing", "polish_saving"} /\ run[s].kind = "polish") =>
      LET texts == Feedbacks(run[s].previous_ratings)
      IN  Len(texts) > 2 =>
            {run[s].feedbacks[i] : i \in 1..Len(run[s].feedbacks)}
              = {texts[1], texts[2]}

\* C18: the context built for a turn is never longer than the character
\* budget, and it ends with the text of the story's most recent chapter.
C18_ContextWithinBudget ==
  \A s \in Sessions :
    (pc[s] \in {"rating", "generating"} /\ run[s].kind = "next") =>
      LET context == story_context(s)
          n == Len(context.entries)
      IN  /\ context_length(context) <= CharBudget
          /\ n > 0 =>
               /\ context.entries[n].ai_cont = run[s].chapters[n].ai_content
               /\ \A i \in 1..n :
                    run[s].chapters[i].chapter_number
                      <= run[s].chapters[n].chapter_number

\* The context a starting turn is given holds the opening text of the story.
OpeningInContext ==
  \A s \in Sessions :
    pc[s] \in {"rating", "generating", "generated"} =>
      \E st \in Rows(stories) :
        /\ st.id = session_state[s].current_story_id
        /\ story_context(s).opening = st.user_text
        /\ st.user_text # ""

\* C19: the context of a turn holds the opening text of the story, and the
\* context built for a continuation turn lists every chapter row the story has
\* when it is built, once each, in ascending order of chapter number.
C19_ContextOpeningAndAscendingChapters ==
  /\ []OpeningInContext
  /\ [][\A s \in Sessions :
          (pc[s] = "idle" /\ pc'[s] = "rating" /\ run'[s].kind = "next") =>
            LET entries == BuildContext(run'[s].story_text, run'[s].chapters).entries
                ids == {i \in 1..Len(chapters) :
                          chapters[i].story_id = session_state[s].current_story_id}
            IN  /\ Len(entries) = Cardinality(ids)
                /\ \A i \in ids : \E k \in 1..Len(entries) :
                     /\ entries[k].ch_num = chapters[i].chapter_number
                     /\ entries[k].user_cont = chapters[i].user_content
                     /\ entries[k].ai_cont = chapters[i].ai_content
                /\ \A j, k \in 1..Len(entries) :
                     j < k => entries[j].ch_num <= entries[k].ch_num]_vars

\* C19 witness: a continuation turn is under way whose context holds the
\* opening text and the chapters 1 and 2, in that order.
C19_Witness ==
  \E s \in Sessions :
    /\ pc[s] = "rating" /\ run[s].kind = "next"
    /\ story_context(s).opening = "w200"
    /\ Len(story_context(s).entries) = 2
    /\ story_context(s).entries[1].ch_num = 1
    /\ story_context(s).entries[2].ch_num = 2
    /\ story_context(s).entries[2].user_cont = "w200"

\* C20: the step that stores the chapter of a turn advances last_updated of
\* the turn's story, and the story is then the first of the story listing.
C20_TurnAdvancesLastUpdated ==
  [][\A s \in Sessions :
       (pc[s] = "generated" /\ pc'[s] = "feedback") =>
         /\ \E i \in 1..Len(stories) :
              /\ stories[i].id = session_state[s].current_story_id
              /\ stories'[i].id = stories[i].id
              /\ stories'[i].last_updated > stories[i].last_updated
         /\ get_stories'[1].id = session_state[s].current_story_id]_vars

\* C21: every model rating that is stored lies in 1..5 - the ai_rating of every
\* chapter row and of every polish session that holds a polished text (the
\* rationale rows of store_ai_feedback hold 0 by construction and are left out).
C21_ModelRatingInOneToFive ==
  /\ \A i \in 1..Len(chapters) : chapters[i].ai_rating \in 1..5
  /\ \A i \in 1..Len(polish_sessions) :
       polish_sessions[i].polished_text # ""
         => polish_sessions[i].ai_rating \in 1..5

\* The polish session with the given id before and after a step, << >> for none.
PolishSessionWithId(id) ==
  SelectSeq(polish_sessions, LAMBDA ps : ps.id = id)
PolishSessionWithIdAfter(id) ==
  SelectSeq(polish_sessions', LAMBDA ps : ps.id = id)

\* C22: a polish session that holds a human rating keeps that rating and its
\* feedback in every later step in which the session stays stored: both are set
\* at most once.
C22_PolishRatingSetOnce ==
  [][\A id \in 1..sqlite_sequence.polish_sessions :
       (/\ PolishSessionWithId(id) # << >>
        /\ PolishSessionWithId(id)[1].user_rating # 0
        /\ PolishSessionWithIdAfter(id) # << >>)
         => /\ PolishSessionWithIdAfter(id)[1].user_rating =
                 PolishSessionWithId(id)[1].user_rating
            /\ PolishSessionWithIdAfter(id)[1].feedback =
                 PolishSessionWithId(id)[1].feedback]_vars

\* Two polish sessions rated one after the other, with different ratings and
\* feedback given for the first only.
C22_Witness ==
  \E i, j \in 1..Len(polish_sessions) :
    /\ polish_sessions[i].id < polish_sessions[j].id
    /\ polish_sessions[i].user_rating = 2
    /\ polish_sessions[i].feedback # NoText
    /\ polish_sessions[j].user_rating = 5
    /\ polish_sessions[j].feedback = NoText

\* C23: a step that removes a story row removes that story alone, every
\* chapter and every polish session that refers to it, and nothing else: the
\* rows of other stories and the polish sessions of no story stay as they were.
C23_DeleteRemovesExactlyTheStory ==
  [][\A story_id \in 1..sqlite_sequence.stories :
       (/\ \E st \in Rows(stories) : st.id = story_id
        /\ \A st \in Rows(stories') : st.id # story_id)
         => /\ Rows(stories') = {st \in Rows(stories) : st.id # story_id}
            /\ Rows(chapters') = {ch \in Rows(chapters) : ch.story_id # story_id}
            /\ Rows(polish_sessions') =
                 {ps \in Rows(polish_sessions) : ps.story_id # story_id}]_vars

\* The first of two stories was deleted with its chapter, its rationale row
\* and a polish session made while it was the current story; the second story
\* keeps its chapter and rationale row, and a polish session of no story
\* is stored.
C23_Witness ==
  /\ sqlite_sequence.stories = 2
  /\ Len(stories) = 1 /\ stories[1].id = 2
  /\ sqlite_sequence.chapters = 2
  /\ Len(chapters) = 1 /\ chapters[1].story_id = 2
  /\ sqlite_sequence.polish_sessions = 4
  /\ Len(polish_sessions) = 2
  /\ \E ps \in Rows(polish_sessions) : ps.story_id = 2 /\ ps.polished_text = ""
  /\ \E ps \in Rows(polish_sessions) : ps.story_id = 0 /\ ps.polished_text # ""

\* C24: while the configured key is missing or does not start with "sk-", so
\* that no client is made, no story, chapter or polish session exists, no
\* collaborator call is under way or was made, and no session has left its
\* defaults: no operation on stories, chapters or polish sessions has run.
C24_NothingRunsWithoutClient ==
  (api_key = "" \/ ~StartsWithSk(api_key))
    => /\ stories = << >> /\ chapters = << >> /\ polish_sessions = << >>
       /\ sqlite_sequence = [stories |-> 0, chapters |-> 0, polish_sessions |-> 0]
       /\ \A s \in Sessions :
            /\ pc[s] = "idle"
            /\ run[s] = NoRun
            /\ session_state[s] = InitialSessionState
       /\ substituted = {}
       /\ refused \subseteq {"client"}

\* A key is configured that does not start with "sk-", and a script run has
\* ended at the client check.
C24_Witness ==
  /\ api_key = "key"
  /\ "client" \in refused

\* The chapter with the given id before and after a step, << >> for none.
ChapterWithId(id) == SelectSeq(chapters, LAMBDA ch : ch.id = id)
ChapterWithIdAfter(id) == SelectSeq(chapters', LAMBDA ch : ch.id = id)
StoryWithIdAfter(id) == SelectSeq(stories', LAMBDA st : st.id = id)

\* C25: the text fields of a stored row are the same after every step in
\* which the row stays stored - the opening of a story, the human and the
\* generated text of a chapter, the original and the polished text of a polish
\* session - and no row takes the id of another.
C25_TextFieldsWrittenOnce ==
  [][/\ \A id \in 1..sqlite_sequence.stories :
          (get_story_details(id) # << >> /\ StoryWithIdAfter(id) # << >>)
            => /\ StoryWithIdAfter(id)[1].user_text = get_story_details(id)[1].user_text
               /\ StoryWithIdAfter(id)[1].title = get_story_details(id)[1].title
     /\ \A id \in 1..sqlite_sequence.chapters :
          (ChapterWithId(id) # << >> /\ ChapterWithIdAfter(id) # << >>)
            => /\ ChapterWithIdAfter(id)[1].user_content = ChapterWithId(id)[1].user_content
               /\ ChapterWithIdAfter(id)[1].ai_content = ChapterWithId(id)[1].ai_content
     /\ \A id \in 1..sqlite_sequence.polish_sessions :
          (PolishSessionWithId(id) # << >> /\ PolishSessionWithIdAfter(id) # << >>)
            => /\ PolishSessionWithIdAfter(id)[1].original_text =
                    PolishSessionWithId(id)[1].original_text
               /\ PolishSessionWithIdAfter(id)[1].polished_text =
                    PolishSessionWithId(id)[1].polished_text
     /\ \A id \in (sqlite_sequence.chapters + 1)..sqlite_sequence.chapters' :
          ChapterWithId(id) = << >>
     /\ \A id \in (sqlite_sequence.polish_sessions + 1)..sqlite_sequence.polish_sessions' :
          PolishSessionWithId(id) = << >>]_vars

\* A chapter and a polish session were rated after they were stored, and a
\* story was deleted since: updates and a deletion have acted on stored rows.
C25_Witness ==
  /\ \E ch \in Rows(chapters) : ch.user_rating # 0 /\ ch.ai_content # ""
  /\ \E ps \in Rows(polish_sessions) : ps.user_rating # 0 /\ ps.polished_text # ""
  /\ Len(stories) < sqlite_sequence.stories

\* C26: between script runs the pending-continuation flag of a session is
\* never set while its current story already has a chapter, and no story has
\* two chapters numbered 1.
C26_PendingFlagConsumedOnce ==
  /\ \A s \in Sessions :
       (/\ pc[s] = "idle"
        /\ session_state[s].pending_ai_continuation
        /\ session_state[s].current_story_id # 0)
         => get_chapters(session_state[s].current_story_id) = << >>
  /\ \A story_id \in StoryIds :
       Cardinality({i \in 1..Len(chapters) :
                      /\ chapters[i].story_id = story_id
                      /\ chapters[i].chapter_number = 1}) <= 1

\* C27: for every chapter row whose rationale is stored, the key the rationale
\* was stored under is the key the feedback is read with when the row's human
\* text is displayed; and no two segments share a key: the chapter rows of a
\* story have different keys, and a row with human text does not have the key
\* of the opening.
C27_StoredKeyIsDisplayedKey ==
  \A story_id \in StoryIds :
    LET chapters_read == get_chapters(story_id)
    IN  \A idx \in 1..Len(chapters_read) :
          RationaleRowsAt(story_id, chapters_read[idx].chapter_number) # {}
            => /\ KeyOfChapter(chapters_read[idx].chapter_number)
                    = displayed_chapter_num(chapters_read, idx)
               /\ chapters_read[idx].user_content # ""
                    => KeyOfChapter(chapters_read[idx].chapter_number) # 1
               /\ \A other \in 1..Len(chapters_read) :
                    other # idx
                      => KeyOfChapter(chapters_read[other].chapter_number)
                           # KeyOfChapter(chapters_read[idx].chapter_number)

\* The rows store_ai_feedback wrote: no polished text and model rating 0 (a
\* polish run stores the text the polishing collaborator returned, or the
\* error text, and neither is empty).
IsPlaceholder(ps) == ps.polished_text = "" /\ ps.ai_rating = 0

\* C28: a row written by store_ai_feedback never holds a human rating, never
\* is the current polish session of a session, and never is an entry of the
\* rating history of any story or of no story.
C28_PlaceholdersStayOutOfHistory ==
  \A ps \in Rows(polish_sessions) :
    IsPlaceholder(ps)
      => /\ ps.user_rating = 0
         /\ \A s \in Sessions : session_state[s].current_polish_session # ps.id
         /\ \A story_id \in 0..sqlite_sequence.stories :
              \A i \in 1..Len(get_user_rating_history(story_id)) :
                get_user_rating_history(story_id)[i] # <<ps.user_rating, ps.feedback>>

\* A story holds a rationale row and a rated polish session made while it was
\* the current story, so that its rating history is not empty.
C28_Witness ==
  \E ps, rated \in Rows(polish_sessions) :
    /\ IsPlaceholder(ps)
    /\ rated.story_id = ps.story_id
    /\ rated.polished_text # ""
    /\ rated.user_rating # 0
    /\ rated.id > ps.id
    /\ get_user_rating_history(ps.story_id) # << >>

\* C29: a step that changes stored chapter rows without inserting or deleting
\* one - the human rating of a generated chapter is submitted - changes one
\* row alone, and of that row the human rating alone.
C29_ChapterRatingChangesOneRow ==
  [][(chapters' # chapters /\ Len(chapters') = Len(chapters))
       => /\ Cardinality({i \in 1..Len(chapters) : chapters'[i] # chapters[i]}) = 1
          /\ \A i \in 1..Len(chapters) :
               chapters'[i] =
                 [chapters[i] EXCEPT !.user_rating = chapters'[i].user_rating]]_vars
====
